---------------------------- MODULE Spec2Model ----------------------------
(***************************************************************************)
(* The vMF-cACG mixture model of dc_integration/distribution/vmfcacgmm.py: *)
(* VMFCACGMM.predict / VMFCACGMM._predict and the EM loop of               *)
(* GCACGMMTrainer.fit / GCACGMMTrainer._m_step.                            *)
(*                                                                         *)
(* Numbers.  A floating point value is modelled by a pair <<n, d>> of      *)
(* integers with d >= 0: d > 0 is the rational n/d in lowest terms,        *)
(* <<1, 0>> is +inf, <<-1, 0>> is -inf and <<0, 0>> is NaN, so that        *)
(* division follows IEEE/numpy (x/0 = inf, 0/0 = NaN, no exception).       *)
(* exp and log are taken to base 2, log rounded down to an integer, and a  *)
(* positive value below Tiny underflows to 0.                              *)
(*                                                                         *)
(* Arrays are functions over 1-based index ranges, one level per axis.     *)
(***************************************************************************)
EXTENDS Integers, Sequences, FiniteSets, TLC

\* ------------------------------------------------------------------ bounds
\* Number of frequency bins, time frames and classes of the model inputs.
F == 2
T == 2
K == 2
\* Largest value of the iterations argument that is explored.
MaxIterations == 2
\* Tiny = 2^-TinyExp stands for np.finfo(dtype).tiny.
TinyExp == 4

Fs == 1 .. F
Ts == 1 .. T
Ks == 1 .. K
Ns == 1 .. (F * T)

\* ------------------------------------------------------------ float values
RECURSIVE GCD(_, _)
GCD(a, b) ==
    IF b = 0 THEN a ELSE GCD(b, a % b)

Abs(n) ==
    IF n < 0 THEN -n ELSE n

Sign(n) ==
    IF n < 0 THEN -1 ELSE IF n > 0 THEN 1 ELSE 0

RECURSIVE Pow2(_)
Pow2(e) ==
    IF e = 0 THEN 1 ELSE 2 * Pow2(e - 1)

\* The pairs that stand for floating point values.  The arithmetic below is
\* given as functions: an argument is evaluated once, before it is used.
Val == Int \X Int

\* <<n, d>> brought to its canonical form.
Rat[n \in Int, d \in Int] ==
    IF d = 0 THEN <<Sign(n), 0>>
    ELSE LET g == GCD(Abs(n), Abs(d))
             s == Sign(d)
         IN  <<(s * n) \div g, (s * d) \div g>>

Zero == <<0, 1>>
One == <<1, 1>>
NaN == <<0, 0>>
NegInf == <<-1, 0>>
Int2Rat[i \in Int] == <<i, 1>>

IsNaN[x \in Val] == x[2] = 0 /\ x[1] = 0
IsFinite[x \in Val] == x[2] > 0

Add[x \in Val, y \in Val] ==
    IF IsNaN[x] \/ IsNaN[y] THEN NaN
    ELSE IF x[2] = 0 /\ y[2] = 0 THEN (IF x[1] = y[1] THEN x ELSE NaN)
    ELSE IF x[2] = 0 THEN x
    ELSE IF y[2] = 0 THEN y
    ELSE Rat[x[1] * y[2] + y[1] * x[2], x[2] * y[2]]

Neg[x \in Val] == <<-x[1], x[2]>>

Sub[x \in Val, y \in Val] == Add[x, Neg[y]]

Mul[x \in Val, y \in Val] == Rat[x[1] * y[1], x[2] * y[2]]

Inv[x \in Val] ==
    IF x[1] < 0 THEN <<-x[2], -x[1]>> ELSE <<x[2], x[1]>>

\* numpy true division: x / 0 is +-inf, 0 / 0 is NaN, nothing is raised.
Div[x \in Val, y \in Val] == Mul[x, Inv[y]]

Less[x \in Val, y \in Val] == x[1] * y[2] < y[1] * x[2]

\* np.maximum: the larger value, NaN if either is NaN.
Maximum[x \in Val, y \in Val] ==
    IF IsNaN[x] \/ IsNaN[y] THEN NaN
    ELSE IF Less[x, y] THEN y ELSE x

\* np.finfo(dtype).tiny, the smallest positive normal number.
Tiny == <<1, Pow2(TinyExp)>>

\* np.exp on an integer-valued score, base 2, with underflow to 0 below Tiny.
Exp[x \in Val] ==
    IF x[2] = 0 THEN (IF x[1] < 0 THEN Zero ELSE x)
    ELSE IF x[1] >= 0 THEN <<Pow2(x[1]), 1>>
    ELSE IF -x[1] > TinyExp THEN Zero
    ELSE <<1, Pow2(-x[1])>>

RECURSIVE FloorLog2(_, _)
FloorLog2(n, d) ==
    IF n >= 2 * d THEN FloorLog2(n, 2 * d) + 1
    ELSE IF n < d THEN FloorLog2(2 * n, d) - 1
    ELSE 0

\* np.log, base 2 and rounded down: log(0) = -inf, log(NaN) = NaN.
Log[x \in Val] ==
    IF x[2] = 0 THEN x
    ELSE IF x[1] = 0 THEN NegInf
    ELSE IF x[1] < 0 THEN NaN
    ELSE <<FloorLog2(x[1], x[2]), 1>>

\* Sum of the first n entries of a sequence (or function on 1..n) of values.
RECURSIVE SumTo(_, _)
SumTo(g, n) ==
    IF n = 0 THEN Zero ELSE Add[SumTo(g, n - 1), g[n]]

\* np.max over the first n entries.
RECURSIVE MaxTo(_, _)
MaxTo(g, n) ==
    IF n = 1 THEN g[1] ELSE Maximum[MaxTo(g, n - 1), g[n]]

\* Integer square root (exact on the perfect squares the inputs produce).
ISqrt(n) ==
    CHOOSE r \in 0 .. n : r * r <= n /\ (r + 1) * (r + 1) > n


\* ----------------------------------------------------------------- vectors
\* A complex number is a pair <<re, im>> of values; |c|^2 = re^2 + im^2.
AbsSq[c \in Val \X Val] == Add[Mul[c[1], c[1]], Mul[c[2], c[2]]]

Sqrt[x \in Val] == Rat[ISqrt(x[1]), ISqrt(x[2])]

\* np.linalg.norm(v, axis=-1) of one complex / one real vector.
NormComplex(v) == Sqrt[SumTo([i \in DOMAIN v |-> AbsSq[v[i]]], Len(v))]

NormReal(v) == Sqrt[SumTo([i \in DOMAIN v |-> Mul[v[i], v[i]]], Len(v))]

\* Normalize with the square root of the norm left out.
NormalizeBySquaredNorm(x, isComplex) ==
    [f \in Fs |-> [t \in Ts |->
        LET v == x[f][t]
            n == IF isComplex THEN NormComplex(v) ELSE NormReal(v)
            m == Maximum[Mul[n, n], Tiny]
        IN  [i \in DOMAIN v |->
                IF isComplex THEN <<Div[v[i][1], m], Div[v[i][2], m]>>
                ELSE Div[v[i], m]]]]

\* x / np.maximum(np.linalg.norm(x, axis=-1, keepdims=True), tiny): a new
\* array, the argument is left as it is.
Normalize(x, isComplex) ==
    [f \in Fs |-> [t \in Ts |->
        LET v == x[f][t]
            m == Maximum[IF isComplex THEN NormComplex(v) ELSE NormReal(v), Tiny]
        IN  [i \in DOMAIN v |->
                IF isComplex THEN <<Div[v[i][1], m], Div[v[i][2], m]>>
                ELSE Div[v[i], m]]]]

\* C-order flattening of the (F, T) grid used by np.reshape(.., (1, F * T, E)).
FOf(n) == ((n - 1) \div T) + 1
TOf(n) == ((n - 1) % T) + 1
Flat(f, t) == (f - 1) * T + t

\* ------------------------------------------------------------------ inputs
C(re, im) == <<Int2Rat[re], Int2Rat[im]>>

\* Observation vectors (D = 2): zero, norm 5, unit norm.
ObsVectors ==
    { <<C(0, 0), C(0, 0)>>, <<C(3, 0), C(0, 4)>>, <<C(0, 1), C(0, 0)>> }

\* Embedding vectors (E = 2): zero, norm 5, unit norm.
EmbVectors ==
    { <<Int2Rat[0], Int2Rat[0]>>, <<Int2Rat[3], Int2Rat[4]>>, <<Int2Rat[1], Int2Rat[0]>> }

Grid(v1, v2) ==
    [f \in Fs |-> [t \in Ts |-> IF (f + t) % 2 = 0 THEN v1 ELSE v2]]

ObservationInputs == { Grid(v, <<C(3, 0), C(0, 4)>>) : v \in ObsVectors }

EmbeddingInputs == { Grid(v, <<Int2Rat[3], Int2Rat[4]>>) : v \in EmbVectors }

DefaultObservation == Grid(<<C(3, 0), C(0, 4)>>, <<C(0, 1), C(0, 0)>>)

DefaultEmbedding == Grid(<<Int2Rat[3], Int2Rat[4]>>, <<Int2Rat[1], Int2Rat[0]>>)

OneHot(c) == [k \in Ks |-> IF k = c THEN One ELSE Zero]

Uniform == [k \in Ks |-> Rat[1, K]]

Skewed == [k \in Ks |-> IF k = 1 THEN Rat[3, 4] ELSE IF k = K THEN Rat[1, 4] ELSE Zero]

\* Affiliations of shape (F, K, T) that sum to 1 over the class axis.
InitializationInputs ==
    { [f \in Fs |-> [k \in Ks |-> [t \in Ts |-> Uniform[k]]]],
      [f \in Fs |-> [k \in Ks |-> [t \in Ts |-> OneHot(((f + t) % K) + 1)[k]]]],
      [f \in Fs |-> [k \in Ks |-> [t \in Ts |-> OneHot(1)[k]]]],
      [f \in Fs |-> [k \in Ks |-> [t \in Ts |->
          IF f = 1 THEN Uniform[k] ELSE IF t = 1 THEN OneHot(1)[k] ELSE OneHot(K)[k]]]],
      [f \in Fs |-> [k \in Ks |-> [t \in Ts |->
          IF t = 1 THEN Skewed[k] ELSE Uniform[k]]]] }

\* Saliencies of shape (F, T): non-negative and not zero everywhere.
SaliencyInputs ==
    { [f \in Fs |-> [t \in Ts |-> One]],
      [f \in Fs |-> [t \in Ts |-> IF f = F THEN One ELSE Zero]],
      [f \in Fs |-> [t \in Ts |-> Int2Rat[f + t - 1]]],
      [f \in Fs |-> [t \in Ts |-> IF (f + t) % 2 = 0 THEN Int2Rat[2] ELSE Zero]] }

\* Values np.random.uniform(size=(F, K, T)) may return, each in (0, 1).
UniformDraws ==
    { [f \in Fs |-> [k \in Ks |-> [t \in Ts |-> Rat[1, 2]]]],
      [f \in Fs |-> [k \in Ks |-> [t \in Ts |-> Rat[k, K + 1]]]],
      [f \in Fs |-> [k \in Ks |-> [t \in Ts |-> Rat[K + 1 - k, K + f]]]] }

\* The numeric-safety options fit passes through to the sub-fitters.
DefaultOptions ==
    [min_concentration |-> "1e-10", max_concentration |-> "500",
     hermitize |-> TRUE, trace_norm |-> TRUE, eigenvalue_floor |-> "1e-10"]

NoArray == <<>>

\* What ComplexAngularCentralGaussian._log_pdf and VonMisesFisher.log_pdf may
\* return: (cacg_log_pdf (F, K, T), quadratic_form (F, K, T)) and
\* vmf_log_pdf (K, F * T).  The third choice lies below the underflow limit.
DensityOutputs ==
    { [cacg_log_pdf |-> [f \in Fs |-> [k \in Ks |-> [t \in Ts |-> Zero]]],
       quadratic_form |-> [f \in Fs |-> [k \in Ks |-> [t \in Ts |-> Int2Rat[2]]]],
       vmf_log_pdf |-> [k \in Ks |-> [n \in Ns |-> Zero]]],
      [cacg_log_pdf |-> [f \in Fs |-> [k \in Ks |-> [t \in Ts |-> Int2Rat[1 - k - f]]]],
       quadratic_form |-> [f \in Fs |-> [k \in Ks |-> [t \in Ts |-> Int2Rat[f + k + t]]]],
       vmf_log_pdf |-> [k \in Ks |-> [n \in Ns |-> Int2Rat[-((k + n) % 2)]]]],
      [cacg_log_pdf |-> [f \in Fs |-> [k \in Ks |-> [t \in Ts |->
                            IF k = 1 THEN Zero ELSE Int2Rat[-(TinyExp + 2)]]]],
       quadratic_form |-> [f \in Fs |-> [k \in Ks |-> [t \in Ts |-> Int2Rat[3]]]],
       vmf_log_pdf |-> [k \in Ks |-> [n \in Ns |-> Int2Rat[-(TinyExp + 3)]]]] }


\* ------------------------------------------------------------------- state
VARIABLES
    args,            \* the caller's arguments of the fit call
    pc,              \* position in fit: "call", "loop", "e_step", "returned", "raised"
    exc,             \* the exception fit raised, "none" if none
    observation,     \* fit's local observation (rebound by the normalization)
    saliency,        \* fit's local saliency
    quadratic_form,  \* fit's local quadratic_form
    affiliation,     \* fit's local affiliation
    model,           \* fit's local model (id 0: not bound yet)
    pos,             \* 1-based position in range(iterations)
    trace,           \* the numeric work of the current call, in order
    consumed,        \* observation and embedding of the latest consuming call
    post,            \* log-score and denominator of the latest _predict
    m_inputs,        \* (affiliation, quadratic_form) received by each M-step
    e_outputs,       \* (affiliation, quadratic_form) returned by each E-step
    pargs,           \* the caller's arguments of the pending/latest predict call
    ppc,             \* position in predict: "idle", "call", "returned", "raised"
    ptrace,          \* the numeric work of the pending/latest predict call
    prediction       \* the affiliation predict returned last

vars ==
    <<args, pc, exc, observation, saliency, quadratic_form, affiliation, model,
      pos, trace, consumed, post, m_inputs, e_outputs, pargs, ppc, ptrace,
      prediction>>

\* -------------------------------------------------------------- VMFCACGMM
\* The dataclass: weight, vmf, cacg (id tells the instances apart).
VMFCACGMM(id, weight, vmf, cacg) ==
    [id |-> id, weight |-> weight, vmf |-> vmf, cacg |-> cacg]

NoModel == VMFCACGMM(0, [shape |-> <<>>, at |-> NoArray], NoArray, NoArray)

\* log(weight)[..., :, None] + cacg_log_pdf + vmf_log_pdf, the latter reshaped
\* from (K, F * T) to (K, F, T) and transposed to (F, K, T).
LogScore(weight, out) ==
    [f \in Fs |-> [k \in Ks |-> [t \in Ts |->
        Add[Add[Log[weight.at[f][k]], out.cacg_log_pdf[f][k][t]],
            out.vmf_log_pdf[k][Flat(f, t)]]]]]

\* np.maximum(einsum("...kn->...n", affiliation), tiny) of the exponentiated,
\* max-shifted scores.
DenominatorAt(col) ==
    LET mx == MaxTo(col, K)
    IN  Maximum[SumTo([k \in Ks |-> Exp[Sub[col[k], mx]]], K), Tiny]

Denominator(score) ==
    [f \in Fs |-> [t \in Ts |-> DenominatorAt([k \in Ks |-> score[f][k][t]])]]

\* The posterior without the shift by the per-(f, t) maximum.
PosteriorUnshifted(score) ==
    [f \in Fs |-> [k \in Ks |-> [t \in Ts |->
        LET col == [j \in Ks |-> score[f][j][t]]
            den == Maximum[SumTo([j \in Ks |-> Exp[col[j]]], K), Tiny]
        IN  Div[Exp[col[k]], den]]]]

\* affiliation -= max over k; exp in place; affiliation /= denominator.
Posterior(score) ==
    [f \in Fs |-> [k \in Ks |-> [t \in Ts |->
        LET col == [j \in Ks |-> score[f][j][t]]
            mx == MaxTo(col, K)
        IN  Div[Exp[Sub[col[k], mx]], DenominatorAt(col)]]]]

\* VMFCACGMM._predict on the outputs `out` of the two density evaluators.
_predict(self, out) ==
    [affiliation |-> Posterior(LogScore(self.weight, out)),
     quadratic_form |-> out.quadratic_form]

\* --------------------------------------------------------- GCACGMMTrainer
\* masked_affiliations = affiliation * saliency[..., None, :]
Masked(aff, sal) ==
    [f \in Fs |-> [k \in Ks |-> [t \in Ts |-> Mul[aff[f][k][t], sal[f][t]]]]]

\* weight = einsum("...kn->...k", masked) / einsum("...n->...", saliency)[..., None]
\* The ellipsis keeps the frequency axis: the result has shape (F, K).
Weight(aff, sal) ==
    LET masked_affiliations == Masked(aff, sal)
    IN  [shape |-> <<F, K>>,
         at |-> [f \in Fs |-> [k \in Ks |->
                    Div[SumTo(masked_affiliations[f][k], T), SumTo(sal[f], T)]]]]

\* GCACGMMTrainer._m_step; the sub-fitters' results are kept as the terms of
\* their arguments.
_m_step(id, obs, emb, qf, aff, sal, opt) ==
    LET masked_affiliations == Masked(aff, sal)
    IN
    VMFCACGMM(
        id,
        Weight(aff, sal),
        [x |-> <<[n \in Ns |-> emb[FOf(n)][TOf(n)]]>>,
         saliency |-> [k \in Ks |-> [n \in Ns |-> masked_affiliations[FOf(n)][k][TOf(n)]]],
         min_concentration |-> opt.min_concentration,
         max_concentration |-> opt.max_concentration],
        [x |-> obs,
         saliency |-> masked_affiliations,
         quadratic_form |-> qf,
         hermitize |-> opt.hermitize,
         trace_norm |-> opt.trace_norm,
         eigenvalue_floor |-> opt.eigenvalue_floor])

\* range(iterations) as the list of its values.
LoopRangeFromOne(iterations) ==
    [j \in 1 .. (iterations - 1) |-> j]

LoopRange(iterations) ==
    [j \in 1 .. iterations |-> j - 1]

\* if iteration < iterations - 1
NeedsEStepAlways(iteration, iterations) ==
    iteration < iterations

NeedsEStep(iteration, iterations) ==
    iteration < iterations - 1


\* ------------------------------------------------------------ fit's callers
FitCall(obs, obsComplex, emb, embReal, init, ncGiven, iterations, sal) ==
    [observation |-> obs, observation_complex |-> obsComplex,
     embedding |-> emb, embedding_real |-> embReal,
     initialization |-> init, initialization_given |-> init # NoArray,
     num_classes |-> IF ncGiven THEN K ELSE 0, num_classes_given |-> ncGiven,
     iterations |-> iterations,
     saliency |-> sal, saliency_given |-> sal # NoArray,
     options |-> DefaultOptions]

\* Calls that meet fit's preconditions.
ValidFitCalls ==
    { FitCall(DefaultObservation, TRUE, DefaultEmbedding, TRUE, init, FALSE, n, sal) :
        init \in InitializationInputs, n \in 0 .. MaxIterations,
        sal \in SaliencyInputs \cup {NoArray} }
    \cup
    { FitCall(DefaultObservation, TRUE, DefaultEmbedding, TRUE, NoArray, TRUE, n, sal) :
        n \in 0 .. MaxIterations, sal \in SaliencyInputs \cup {NoArray} }
    \cup
    { FitCall(obs, TRUE, emb, TRUE, init, FALSE, n, NoArray) :
        obs \in ObservationInputs, emb \in EmbeddingInputs,
        init \in {[f \in Fs |-> [k \in Ks |-> [t \in Ts |-> Uniform[k]]]]},
        n \in {2} }

\* Calls that break one precondition: both or neither of initialization and
\* num_classes, a real observation, a complex embedding.
InvalidFitCalls ==
    { FitCall(DefaultObservation, oc, DefaultEmbedding, er, init, ncGiven, n, NoArray) :
        oc \in BOOLEAN, er \in BOOLEAN, ncGiven \in BOOLEAN,
        init \in {NoArray, [f \in Fs |-> [k \in Ks |-> [t \in Ts |-> Uniform[k]]]]},
        n \in {1} }
    \ ValidFitCalls

PredictCalls ==
    { [observation |-> obs, observation_complex |-> TRUE,
       embedding |-> emb, embedding_real |-> TRUE] :
        obs \in {Grid(<<C(0, 0), C(0, 0)>>, <<C(3, 0), C(0, 4)>>)},
        emb \in {DefaultEmbedding, Grid(<<Int2Rat[0], Int2Rat[0]>>, <<Int2Rat[3], Int2Rat[4]>>)} }
    \cup
    { [observation |-> DefaultObservation, observation_complex |-> oc,
       embedding |-> DefaultEmbedding, embedding_real |-> er] :
        oc \in BOOLEAN, er \in BOOLEAN }

NoCall ==
    [observation |-> NoArray, observation_complex |-> TRUE,
     embedding |-> NoArray, embedding_real |-> TRUE]

Ones3 == [f \in Fs |-> [k \in Ks |-> [t \in Ts |-> One]]]

Ones2 == [f \in Fs |-> [t \in Ts |-> One]]

\* initialization /= einsum("...kt->...t", initialization)[..., None, :]
NormalizeDraw(draw) ==
    [f \in Fs |-> [k \in Ks |-> [t \in Ts |->
        Div[draw[f][k][t], SumTo([j \in Ks |-> draw[f][j][t]], K)]]]]

\* The three assertions at the head of fit.
FitPreconditions(a) ==
    /\ (~a.initialization_given) # (~a.num_classes_given)
    /\ a.observation_complex
    /\ a.embedding_real

\* The two assertions at the head of predict.
PredictPreconditions(a) ==
    /\ a.observation_complex
    /\ a.embedding_real

Init ==
    /\ args \in ValidFitCalls \cup InvalidFitCalls
    /\ pc = "call"
    /\ exc = "none"
    /\ observation = NoArray
    /\ saliency = NoArray
    /\ quadratic_form = NoArray
    /\ affiliation = NoArray
    /\ model = NoModel
    /\ pos = 0
    /\ trace = <<>>
    /\ consumed = [caller |-> "none", fn |-> "none",
                   observation |-> NoArray, embedding |-> NoArray]
    /\ post = [score |-> NoArray, denominator |-> NoArray]
    /\ m_inputs = <<>>
    /\ e_outputs = <<>>
    /\ pargs = NoCall
    /\ ppc = "idle"
    /\ ptrace = <<>>
    /\ prediction = NoArray

\* fit, from its head to the first loop test, given the random draw.
FitSetup(draw) ==
    /\ observation' = Normalize(args.observation, TRUE)
    /\ affiliation' = IF args.initialization_given THEN args.initialization
                      ELSE NormalizeDraw(draw)
    /\ saliency' = IF args.saliency_given THEN args.saliency ELSE Ones2
    /\ quadratic_form' = Ones3
    /\ trace' = IF args.initialization_given THEN <<"normalize_observation">>
                ELSE <<"normalize_observation", "random_draw">>
    /\ pos' = 1
    /\ pc' = "loop"
    /\ exc' = exc

\* fit normalizing with observation /= ..., in the caller's array.
FitEnterInPlace ==
    /\ pc = "call"
    /\ IF FitPreconditions(args)
       THEN /\ \E draw \in UniformDraws : FitSetup(draw)
            /\ args' = [args EXCEPT !.observation = Normalize(args.observation, TRUE)]
       ELSE /\ pc' = "raised"
            /\ exc' = "AssertionError"
            /\ UNCHANGED <<args, observation, affiliation, saliency, quadratic_form,
                           pos, trace>>
    /\ UNCHANGED <<model, consumed, post, m_inputs, e_outputs, pargs, ppc,
                   ptrace, prediction>>

\* fit with the assertions placed after the normalization.
FitEnterChecksLate ==
    /\ pc = "call"
    /\ IF FitPreconditions(args)
       THEN \E draw \in UniformDraws : FitSetup(draw)
       ELSE /\ pc' = "raised"
            /\ exc' = "AssertionError"
            /\ trace' = <<"normalize_observation">>
            /\ UNCHANGED <<observation, affiliation, saliency, quadratic_form, pos>>
    /\ UNCHANGED <<args, model, consumed, post, m_inputs, e_outputs, pargs, ppc,
                   ptrace, prediction>>

FitEnter ==
    /\ pc = "call"
    /\ IF FitPreconditions(args)
       THEN \E draw \in UniformDraws : FitSetup(draw)
       ELSE /\ pc' = "raised"
            /\ exc' = "AssertionError"
            /\ UNCHANGED <<observation, affiliation, saliency, quadratic_form, pos,
                           trace>>
    /\ UNCHANGED <<args, model, consumed, post, m_inputs, e_outputs, pargs, ppc,
                   ptrace, prediction>>

\* One pass through the loop body up to the test of line 145.
MStep ==
    /\ pc = "loop"
    /\ pos <= Len(LoopRange(args.iterations))
    /\ model' = _m_step(model.id + 1, observation, args.embedding, quadratic_form,
                        affiliation, saliency, args.options)
    /\ trace' = Append(trace, "M")
    /\ m_inputs' = Append(m_inputs,
                          [affiliation |-> affiliation, quadratic_form |-> quadratic_form])
    /\ consumed' = [caller |-> "fit", fn |-> "_m_step",
                    observation |-> observation, embedding |-> args.embedding]
    /\ IF NeedsEStep(LoopRange(args.iterations)[pos], args.iterations)
       THEN pc' = "e_step" /\ pos' = pos
       ELSE pc' = "loop" /\ pos' = pos + 1
    /\ UNCHANGED <<args, exc, observation, saliency, quadratic_form, affiliation,
                   post, e_outputs, pargs, ppc, ptrace, prediction>>

\* The E-step with the returned quadratic form dropped:
\* affiliation, _ = model._predict(observation, embedding)
EStepDropsQuadraticForm ==
    /\ pc = "e_step"
    /\ \E out \in DensityOutputs :
          LET r == _predict(model, out)
              score == LogScore(model.weight, out)
          IN  /\ affiliation' = r.affiliation
              /\ post' = [score |-> score, denominator |-> Denominator(score)]
              /\ e_outputs' = Append(e_outputs,
                                     [affiliation |-> r.affiliation,
                                      quadratic_form |-> r.quadratic_form,
                                      model_id |-> model.id])
    /\ trace' = Append(trace, "E")
    /\ consumed' = [caller |-> "fit", fn |-> "_predict",
                    observation |-> observation, embedding |-> args.embedding]
    /\ pos' = pos + 1
    /\ pc' = "loop"
    /\ UNCHANGED <<args, exc, observation, saliency, quadratic_form, model, m_inputs,
                   pargs, ppc, ptrace, prediction>>

\* affiliation, quadratic_form = model._predict(observation, embedding)
EStep ==
    /\ pc = "e_step"
    /\ \E out \in DensityOutputs :
          LET r == _predict(model, out)
              score == LogScore(model.weight, out)
          IN  /\ affiliation' = r.affiliation
              /\ quadratic_form' = r.quadratic_form
              /\ post' = [score |-> score, denominator |-> Denominator(score)]
              /\ e_outputs' = Append(e_outputs,
                                     [affiliation |-> r.affiliation,
                                      quadratic_form |-> r.quadratic_form,
                                      model_id |-> model.id])
    /\ trace' = Append(trace, "E")
    /\ consumed' = [caller |-> "fit", fn |-> "_predict",
                    observation |-> observation, embedding |-> args.embedding]
    /\ pos' = pos + 1
    /\ pc' = "loop"
    /\ UNCHANGED <<args, exc, observation, saliency, model, m_inputs, pargs, ppc,
                   ptrace, prediction>>

\* return model, once range(iterations) is exhausted.
FitReturn ==
    /\ pc = "loop"
    /\ pos > Len(LoopRange(args.iterations))
    /\ IF model.id = 0
       THEN pc' = "raised" /\ exc' = "UnboundLocalError"
       ELSE pc' = "returned" /\ exc' = exc
    /\ UNCHANGED <<args, observation, saliency, quadratic_form, affiliation, model,
                   pos, trace, consumed, post, m_inputs, e_outputs, pargs, ppc,
                   ptrace, prediction>>

\* A caller invokes predict on the fitted model (one call is followed).
PredictCall ==
    /\ pc = "returned"
    /\ ppc = "idle"
    /\ pargs' \in PredictCalls
    /\ ppc' = "call"
    /\ ptrace' = <<>>
    /\ UNCHANGED <<args, pc, exc, observation, saliency, quadratic_form, affiliation,
                   model, pos, trace, consumed, post, m_inputs, e_outputs, prediction>>

\* VMFCACGMM.predict
predict ==
    /\ ppc = "call"
    /\ IF PredictPreconditions(pargs)
       THEN \E out \in DensityOutputs :
               /\ prediction' = _predict(model, out).affiliation
               /\ LET score == LogScore(model.weight, out)
                  IN  post' = [score |-> score, denominator |-> Denominator(score)]
               /\ consumed' = [caller |-> "predict", fn |-> "_predict",
                               observation |-> Normalize(pargs.observation, TRUE),
                               embedding |-> Normalize(pargs.embedding, FALSE)]
               /\ ptrace' = <<"normalize_observation", "normalize_embedding", "E">>
               /\ ppc' = "returned"
       ELSE /\ ppc' = "raised"
            /\ UNCHANGED <<prediction, post, consumed, ptrace>>
    /\ UNCHANGED <<args, pc, exc, observation, saliency, quadratic_form, affiliation,
                   model, pos, trace, m_inputs, e_outputs, pargs>>

Next ==
    \/ FitEnter
    \/ MStep
    \/ EStep
    \/ FitReturn
    \/ PredictCall
    \/ predict

Spec == Init /\ [][Next]_vars

\* A call of fit runs to its end: nothing suspends the single thread.
FairSpec == Spec /\ WF_vars(FitEnter \/ MStep \/ EStep \/ FitReturn)

TypeOK ==
    /\ pc \in {"call", "loop", "e_step", "returned", "raised"}
    /\ ppc \in {"idle", "call", "returned", "raised"}
    /\ exc \in {"none", "AssertionError", "UnboundLocalError"}


\* ------------------------------------------------------------------ claims
SumOverClasses(a, f, t) == SumTo([k \in Ks |-> a[f][k][t]], K)

\* The affiliation the latest _predict returned (to fit or to predict).
LastPosterior == IF ppc = "returned" THEN prediction ELSE affiliation

ColumnFinite(f, t) == \A k \in Ks : IsFinite[post.score[f][k][t]]

\* C1: wherever the per-class log-scores of a (f, t) are finite, the
\* affiliation _predict returns is non-negative, sums to 1 over the classes,
\* and the denominator is at least 1, so the floor at tiny is not in effect.
C1_PosteriorNormalized ==
    post.score # NoArray =>
        \A f \in Fs, t \in Ts :
            ColumnFinite(f, t) =>
                /\ \A k \in Ks : /\ IsFinite[LastPosterior[f][k][t]]
                                 /\ ~Less[LastPosterior[f][k][t], Zero]
                /\ SumOverClasses(LastPosterior, f, t) = One
                /\ ~Less[post.denominator[f][t], One]

\* predict has returned an affiliation computed from finite scores, one of
\* whose exponentials underflowed.
C1_Witness ==
    /\ ppc = "returned"
    /\ \A f \in Fs, t \in Ts : ColumnFinite(f, t)
    /\ \E f \in Fs, t \in Ts : prediction[f][1][t] = One /\ prediction[f][K][t] = Zero

WeightTotal(w) == SumTo([f \in Fs |-> SumTo(w.at[f], K)], F)

InitializationSumsToOne ==
    /\ args.initialization_given
    /\ \A f \in Fs, t \in Ts : SumOverClasses(args.initialization, f, t) = One

\* C2: for a valid call the weight of the returned Model sums to 1 over all
\* of its entries.
C2_WeightSumsToOne ==
    (pc = "returned" /\ InitializationSumsToOne) => WeightTotal(model.weight) = One

SumOverGrid(g) == SumTo([n \in Ns |-> g[FOf(n)][TOf(n)]], F * T)

\* C3: with iterations = 1 and a given initialization the returned weight has
\* shape (K,) and weight_k is the sum over all (f, t) of affiliation * saliency
\* over the one sum over all (f, t) of saliency.
C3_WeightIsClassVector ==
    (pc = "returned" /\ args.iterations = 1 /\ args.initialization_given) =>
        /\ model.weight.shape = <<K>>
        /\ \A k \in Ks :
              model.weight.at[k] =
                  Div[SumOverGrid([f \in Fs |-> [t \in Ts |->
                          Mul[args.initialization[f][k][t], saliency[f][t]]]]),
                      SumOverGrid(saliency)]

ViolatesFitContract(a) ==
    \/ a.initialization_given /\ a.num_classes_given
    \/ ~a.initialization_given /\ ~a.num_classes_given
    \/ ~a.observation_complex
    \/ ~a.embedding_real

\* C4: a call of fit that breaks a precondition raises with no normalization,
\* draw, M-step or E-step done; a call of predict with a real observation or
\* a complex embedding raises with no normalization or density evaluation done.
C4_FailsBeforeComputation ==
    /\ (pc # "call" /\ ViolatesFitContract(args)) =>
          /\ pc = "raised" /\ exc = "AssertionError"
          /\ trace = <<>> /\ m_inputs = <<>> /\ e_outputs = <<>>
          /\ observation = NoArray /\ model.id = 0
    /\ (ppc \in {"returned", "raised"}
          /\ (~pargs.observation_complex \/ ~pargs.embedding_real)) =>
          /\ ppc = "raised"
          /\ ptrace = <<>> /\ prediction = NoArray /\ consumed.caller # "predict"

\* fit was called with both initialization and num_classes and has raised.
C4_Witness ==
    /\ pc = "raised"
    /\ args.initialization_given /\ args.num_classes_given

Steps == SelectSeq(trace, LAMBDA e : e \in {"M", "E"})

\* C5: the steps of fit alternate M, E, M, ...; a fit that returned with
\* iterations = n ran n M-steps and n - 1 E-steps, ending with an M-step whose
\* Model is the one returned.
C5_StepCounts ==
    /\ \A i \in 1 .. Len(Steps) : Steps[i] = IF i % 2 = 1 THEN "M" ELSE "E"
    /\ pc = "returned" =>
          /\ args.iterations >= 1
          /\ Len(Steps) = 2 * args.iterations - 1
          /\ Len(m_inputs) = args.iterations
          /\ Len(e_outputs) = args.iterations - 1
          /\ model.id = args.iterations

\* fit has returned from a run of at least two iterations.
C5_Witness ==
    /\ pc = "returned"
    /\ args.iterations >= 2
    /\ Steps[Len(Steps)] = "M"

AllFinite3(a) == \A f \in Fs, k \in Ks, t \in Ts : IsFinite[a[f][k][t]]

\* C6: no division yields a non-finite value: the weights of every Model are
\* finite and every affiliation fit or predict computes is finite and
\* normalized.
C6_AlwaysFinite ==
    /\ model.id > 0 => \A f \in Fs, k \in Ks : IsFinite[model.weight.at[f][k]]
    /\ affiliation # NoArray =>
          /\ AllFinite3(affiliation)
          /\ \A f \in Fs, t \in Ts : SumOverClasses(affiliation, f, t) = One
    /\ prediction # NoArray =>
          /\ AllFinite3(prediction)
          /\ \A f \in Fs, t \in Ts : SumOverClasses(prediction, f, t) = One

NormSqComplex(v) == SumTo([i \in DOMAIN v |-> AbsSq[v[i]]], Len(v))

NormSqReal(v) == SumTo([i \in DOMAIN v |-> Mul[v[i], v[i]]], Len(v))

C8_DataFlow ==
    /\ Len(m_inputs) >= 1 =>
          /\ m_inputs[1].quadratic_form = Ones3
          /\ args.initialization_given => m_inputs[1].affiliation = args.initialization
    /\ \A i \in 2 .. Len(m_inputs) :
          /\ m_inputs[i].affiliation = e_outputs[i - 1].affiliation
          /\ m_inputs[i].quadratic_form = e_outputs[i - 1].quadratic_form
          /\ e_outputs[i - 1].model_id = i - 1
    /\ Len(e_outputs) \in {Len(m_inputs) - 1, Len(m_inputs)}
    /\ pc = "returned" =>
          /\ Len(e_outputs) = Len(m_inputs) - 1
          /\ model.cacg.quadratic_form = m_inputs[Len(m_inputs)].quadratic_form
          /\ model.cacg.saliency = Masked(m_inputs[Len(m_inputs)].affiliation, saliency)

\* fit has returned after an M-step that consumed an E-step's pair.
C8_Witness ==
    /\ pc = "returned"
    /\ Len(m_inputs) >= 2
    /\ m_inputs[2].quadratic_form # Ones3

\* C9: no step changes the caller's arguments of fit or of the pending
\* predict; inside the loop the normalized observation and the saliency stay
\* the same; an E-step and predict leave the Model as it is; a step that
\* rebinds model binds a Model that did not exist before.
C9_Frame ==
    [][/\ args' = args
       /\ ppc = "call" => pargs' = pargs /\ model' = model
       /\ pc \in {"loop", "e_step"} => observation' = observation /\ saliency' = saliency
       /\ pc = "e_step" => model' = model
       /\ model'.id # model.id => model'.id = model.id + 1 /\ pc = "loop"]_vars

\* fit and predict have both returned; the caller's observation still differs
\* from the normalized one fit worked on.
C9_Witness ==
    /\ pc = "returned"
    /\ ppc = "returned"
    /\ observation # args.observation
    /\ model.id >= 2

ValidFitCall(a) ==
    /\ a.initialization_given # a.num_classes_given
    /\ a.observation_complex
    /\ a.embedding_real

\* C10 as stated: every call that meets the preconditions, iterations = 0
\* included, ends by returning a Model.
C10_AnyIterationCount ==
    (ValidFitCall(args) /\ pc \in {"returned", "raised"}) => pc = "returned"

\* C10: a call that meets the preconditions with iterations >= 1 never raises
\* and eventually returns a Model.
C10_Terminates ==
    /\ []((ValidFitCall(args) /\ args.iterations >= 1) => exc = "none")
    /\ (ValidFitCall(args) /\ args.iterations >= 1) ~> (pc = "returned" /\ model.id >= 1)

\* fit has returned the Model of a one-iteration run.
C10_Witness ==
    /\ pc = "returned"
    /\ args.iterations = 1
    /\ model.id = 1

=============================================================================
